---- MODULE Spec2Model ----
(***************************************************************************)
(* Model of antontsv/backup: the orchestration engine of the main package  *)
(* (walkSources, runBackups, upload, status) and the multipart upload of   *)
(* the awsglacier package (multiPartUpload).                               *)
(*                                                                         *)
(* Spec    : one run of main: the enumerator goroutine, the engine loop,   *)
(*           one upload goroutine per (unit, backend), the status reporter *)
(*           of each unit with its channel-draining goroutine, and the     *)
(*           signal goroutine that cancels the context.                    *)
(* SpecMP  : one call of multiPartUpload for an object of some size.       *)
(***************************************************************************)
EXTENDS Integers, Sequences, FiniteSets, TLC

\* ---------------------------------------------------------------- bounds
\* Most source paths given on the command line.
MaxSources == 1
\* Most non-directory entries below one directory source.
MaxDirFiles == 2

\* ------------------------------------------------------------- engine state
VARIABLES
    sources,      \* flag.Args()[0:num-1]: per source [isDir, nfiles]
    recursive,    \* the -r flag
    backupers,    \* keys of the backupers map built by runBackups
    signal,       \* os.Interrupt was delivered to the signal goroutine
    cancelled,    \* ctx of main is Done (cancel() was called)
    exit,         \* "running", "fatal" (log.Fatalf) or "returned" (main returned)
    wPc, wSrc, wEnt,          \* walkSources: position, source index, entry index
    ePc, spawned, wg,         \* runBackups: position, backends started, WaitGroup counter
    units,        \* units received from the files channel, as <<source, entry>>
    afterCancel,  \* per unit: the context was already cancelled when it was received
    upPc,         \* per unit and backend: position of the upload goroutine
    calls,        \* per unit and backend: number of Backuper.Upload invocations
    lateCall,     \* some Upload was entered with ctx already cancelled
    result,       \* per unit and backend: what Backuper.Upload returned
    stPc,         \* per unit: position of the status goroutine
    final,        \* per unit: the map final of status()
    mu,           \* per unit: holder of the mutex mu of status()
    open,         \* per unit: keys left in the statuses map
    drPc,         \* per unit: position of the draining goroutine
    drMsg,        \* per unit: <<name, msg>> received and not yet stored
    drCancelled,  \* per unit: the draining goroutine called cancel()
    seen          \* per unit: what the print() in progress has read from final

\* ---------------------------------------------------------- multipart state
VARIABLES
    size,         \* info.Size() of the file handed to multiPartUpload
    mpPc,         \* position of multiPartUpload
    mpStart, mpEnd, mpI,      \* start, end, i of the launch loop
    sem,          \* number of values held by the channel sem
    mpWg,         \* counter of the WaitGroup wg
    parts,        \* uploadPart goroutines, counted by position
    closer,       \* the goroutine that waits on wg and closes errorc
    errs,         \* errs != ""
    errText,      \* the text errs holds
    ranges,       \* <<start, end, n>> of every go uploadPart(...), in order
    lateLaunch,   \* some part was started with the context already cancelled
    anyPartErr,   \* some UploadMultipartPart call returned an error
    inits,        \* calls of InitiateMultipartUpload
    completes,    \* calls of CompleteMultipartUpload
    singles,      \* calls of UploadArchive (singleUpload)
    mpResult      \* what multiPartUpload returned: "none", "ok", "failed", or
                  \* "staterr" for the error of file.Stat()

\* ---------------------------------------------------------------- name state
\* Strings are sequences of one-character strings.
VARIABLES
    destArg,      \* flag.Arg(num - 1), the destination the user typed
    bucketName,   \* per backend: the bucketName its New was called with
    dest,         \* the parameter dest of runBackups
    srcArg,       \* one source of walkSources: its spelling, whether os.Stat says
                  \* it is a directory, and the entry the walk visits below it
    nmPc,         \* position in the computation of the names of one unit
    bucket, path, \* what parseDest(dest) returned
    rebucket, repath,         \* what parseDest returned for bucket + ":" + path
    file,         \* the srcFile walkSources sends: [path, base]
    upDest        \* per backend: the dest handed to upload() and to Backuper.Upload

\* ------------------------------------------------------- cloud.GetKeyValues
VARIABLES
    keys,         \* the parameter keys: the required keys, in order
    cnf,          \* the config section: per key name its raw value, or Absent
    gkPc,         \* position in GetKeyValues
    gkI,          \* index of the key the loop looks at
    values,       \* the map values
    missing,      \* the slice missing
    empty,        \* the slice empty
    err           \* the error err: ErrNil or the parts of its message

gkVars == <<keys, cnf, gkPc, gkI, values, missing, empty, err>>

nameVars == <<destArg, bucketName, dest, srcArg, nmPc, bucket, path, rebucket, repath, file,
              upDest, gkVars>>

mpVars == <<size, mpPc, mpStart, mpEnd, mpI, sem, mpWg, parts, closer, errs, errText,
            ranges, lateLaunch, anyPartErr, inits, completes, singles, mpResult>>

engineVars == <<sources, recursive, backupers, signal, cancelled, exit, wPc, wSrc, wEnt,
                ePc, spawned, wg, units, afterCancel, upPc, calls, lateCall, result,
                stPc, final, mu, open, drPc, drMsg, drCancelled, seen>>

\* The two providers main knows; the names are the labels googlePrint and
\* amazonPrint give with colour off.
Providers == {"Amazon", "Google"}

\* A plain file is one unit; a directory holds 0..MaxDirFiles non-directory entries.
\* Every source exists and can be read: os.Stat and filepath.Walk return no error.
SourceKinds == {[isDir |-> FALSE, nfiles |-> 1]}
               \cup {[isDir |-> TRUE, nfiles |-> n] : n \in 0..MaxDirFiles}

SourceLists == UNION {[1..n -> SourceKinds] : n \in 1..MaxSources}

RECURSIVE EntriesFrom(_)
\* Number of units the sources from the i-th on hold.
EntriesFrom(i) ==
    IF i > Len(sources) THEN 0 ELSE sources[i].nfiles + EntriesFrom(i + 1)

\* Status messages: "-" placeholder of status(), "." pending, then the outcome.
MsgPending == "."
MsgOK == "OK"
MsgERR == "ERR"
Terminal == {MsgOK, MsgERR}

NoneMap == [b \in Providers |-> "none"]
ZeroMap == [b \in Providers |-> 0]

Cur == Len(units)

Running == exit = "running"

\* ctx.Done() of the context status() derives from the context of main.
StatusCtxDone(u) == cancelled \/ drCancelled[u]

\* The goroutines of main before any of them has taken a step.
EngineStart ==
    /\ signal = FALSE
    /\ cancelled = FALSE
    /\ exit = "running"
    /\ wPc = "select" /\ wSrc = 1 /\ wEnt = 1
    /\ ePc = "recv" /\ spawned = {} /\ wg = 0
    /\ units = <<>> /\ afterCancel = <<>>
    /\ upPc = <<>> /\ calls = <<>> /\ lateCall = FALSE /\ result = <<>>
    /\ stPc = <<>> /\ final = <<>> /\ mu = <<>>
    /\ open = <<>> /\ drPc = <<>> /\ drMsg = <<>> /\ drCancelled = <<>>
    /\ seen = <<>>

InitEngine ==
    /\ sources \in SourceLists
    /\ recursive \in BOOLEAN
    /\ backupers \in (SUBSET Providers) \ {{}}
    /\ EngineStart

\* ------------------------------------------------------------ signal goroutine
\* The goroutine of main that waits for os.Interrupt: s := <-sign, then cancel().
Cancel ==
    /\ Running /\ ~cancelled
    /\ cancelled' = TRUE
    /\ signal' = TRUE
    /\ UNCHANGED <<mpVars, nameVars, sources, recursive, backupers, exit, wPc, wSrc, wEnt,
                   ePc, spawned, wg, units, afterCancel, upPc, calls, lateCall, result,
                   stPc, final, mu, open, drPc, drMsg, drCancelled, seen>>

\* ------------------------------------------------------------------ walkSources
walkerRest == <<mpVars, nameVars, sources, recursive, backupers, signal, cancelled,
                ePc, spawned, wg, units, afterCancel, upPc, calls, lateCall, result,
                stPc, final, mu, open, drPc, drMsg, drCancelled, seen>>

\* Top of the loop over sources: the loop ends, or the select takes ctx.Done(),
\* or its default branch looks at the source.
WalkSelect ==
    /\ Running /\ wPc = "select"
    /\ IF wSrc > Len(sources) \/ cancelled
         THEN /\ wPc' = "closed"           \* return; deferred close(files)
              /\ UNCHANGED <<wSrc, wEnt, exit>>
         ELSE IF sources[wSrc].isDir /\ ~recursive
         THEN /\ exit' = "fatal"           \* log.Fatalf: ... please use -r
              /\ UNCHANGED <<wPc, wSrc, wEnt>>
         ELSE IF sources[wSrc].nfiles = 0
         THEN /\ wSrc' = wSrc + 1          \* a walk that visits no file
              /\ UNCHANGED <<wPc, wEnt, exit>>
         ELSE /\ wPc' = "check" /\ wEnt' = 1
              /\ UNCHANGED <<wSrc, exit>>
    /\ UNCHANGED walkerRest

\* After an entry was sent or skipped: the next entry, or the next source.
WalkAdvance(pc, src, ent) ==
    IF ent < sources[src].nfiles
      THEN <<"check", src, ent + 1>>
      ELSE <<"select", src + 1, 1>>

\* WalkCheck that goes on to the send whatever ctx.Err() is.
WalkCheckNoCtx ==
    /\ Running /\ wPc = "check"
    /\ wPc' = "send" /\ UNCHANGED <<wSrc, wEnt>>
    /\ UNCHANGED exit
    /\ UNCHANGED walkerRest

\* ctx.Err() == nil, tested right before files <- srcFile{...}.
WalkCheck ==
    /\ Running /\ wPc = "check"
    /\ IF cancelled
         THEN LET nxt == WalkAdvance(wPc, wSrc, wEnt)
              IN  wPc' = nxt[1] /\ wSrc' = nxt[2] /\ wEnt' = nxt[3]
         ELSE wPc' = "send" /\ UNCHANGED <<wSrc, wEnt>>
    /\ UNCHANGED exit
    /\ UNCHANGED walkerRest

\* ------------------------------------------------------------------ runBackups
\* for f := range files: the unbuffered send of walkSources meets the receive.
EngineRecv ==
    /\ Running /\ ePc = "recv" /\ wPc = "send"
    /\ units' = Append(units, <<wSrc, wEnt>>)
    /\ afterCancel' = Append(afterCancel, cancelled)
    /\ LET nxt == WalkAdvance(wPc, wSrc, wEnt)
       IN  wPc' = nxt[1] /\ wSrc' = nxt[2] /\ wEnt' = nxt[3]
    /\ ePc' = "spawn" /\ spawned' = {}
    /\ upPc' = Append(upPc, NoneMap)
    /\ calls' = Append(calls, ZeroMap)
    /\ result' = Append(result, NoneMap)
    /\ stPc' = Append(stPc, "none")
    /\ final' = Append(final, NoneMap)
    /\ mu' = Append(mu, "free")
    /\ open' = Append(open, {})
    /\ drPc' = Append(drPc, "none")
    /\ drMsg' = Append(drMsg, <<>>)
    /\ drCancelled' = Append(drCancelled, FALSE)
    /\ seen' = Append(seen, NoneMap)
    /\ UNCHANGED <<mpVars, nameVars, sources, recursive, backupers, signal, cancelled, exit, wg, lateCall>>

\* One turn of the loop over backupers: wg.Add(1), make(chan string), go upload.
EngineSpawn(b) ==
    /\ Running /\ ePc = "spawn" /\ b \in backupers \ spawned
    /\ wg' = wg + 1
    /\ spawned' = spawned \cup {b}
    /\ upPc' = [upPc EXCEPT ![Cur][b] = "start"]
    /\ UNCHANGED <<mpVars, nameVars, sources, recursive, backupers, signal, cancelled, exit, wPc, wSrc, wEnt,
                   ePc, units, afterCancel, calls, lateCall, result,
                   stPc, final, mu, open, drPc, drMsg, drCancelled, seen>>

\* EngineSpawnStatus reached before the loop over backupers has visited them all.
EngineSpawnStatusEarly ==
    /\ Running /\ ePc = "spawn"
    /\ wg' = wg + 1
    /\ stPc' = [stPc EXCEPT ![Cur] = "init"]
    /\ ePc' = "wait"
    /\ UNCHANGED <<mpVars, nameVars, sources, recursive, backupers, signal, cancelled, exit, wPc, wSrc, wEnt,
                   spawned, units, afterCancel, upPc, calls, lateCall, result,
                   final, mu, open, drPc, drMsg, drCancelled, seen>>

\* After the loop: wg.Add(1), go status(ctx, f.path, statuses, wg).
EngineSpawnStatus ==
    /\ Running /\ ePc = "spawn" /\ spawned = backupers
    /\ wg' = wg + 1
    /\ stPc' = [stPc EXCEPT ![Cur] = "init"]
    /\ ePc' = "wait"
    /\ UNCHANGED <<mpVars, nameVars, sources, recursive, backupers, signal, cancelled, exit, wPc, wSrc, wEnt,
                   spawned, units, afterCancel, upPc, calls, lateCall, result,
                   final, mu, open, drPc, drMsg, drCancelled, seen>>

\* EngineWait without the barrier: the loop goes on while the counter is not 0.
EngineWaitNoBarrier ==
    /\ Running /\ ePc = "wait"
    /\ ePc' = "recv"
    /\ UNCHANGED <<mpVars, nameVars, sources, recursive, backupers, signal, cancelled, exit, wPc, wSrc, wEnt,
                   spawned, wg, units, afterCancel, upPc, calls, lateCall, result,
                   stPc, final, mu, open, drPc, drMsg, drCancelled, seen>>

\* wg.Wait() returns.
EngineWait ==
    /\ Running /\ ePc = "wait" /\ wg = 0
    /\ ePc' = "recv"
    /\ UNCHANGED <<mpVars, nameVars, sources, recursive, backupers, signal, cancelled, exit, wPc, wSrc, wEnt,
                   spawned, wg, units, afterCancel, upPc, calls, lateCall, result,
                   stPc, final, mu, open, drPc, drMsg, drCancelled, seen>>

\* The files channel is closed: the range loop ends, runBackups and main return,
\* and the process ends with every goroutine still running.
EngineReturn ==
    /\ Running /\ ePc = "recv" /\ wPc = "closed"
    /\ ePc' = "returned"
    /\ exit' = "returned"
    /\ UNCHANGED <<mpVars, nameVars, sources, recursive, backupers, signal, cancelled, wPc, wSrc, wEnt,
                   spawned, wg, units, afterCancel, upPc, calls, lateCall, result,
                   stPc, final, mu, open, drPc, drMsg, drCancelled, seen>>

\* ---------------------------------------------------------------------- upload
Units == 1..Len(units)

\* worker.Upload(ctx, file, dest) is entered.
UploadBegin(u, b) ==
    /\ Running /\ upPc[u][b] = "call"
    /\ upPc' = [upPc EXCEPT ![u][b] = "inUpload"]
    /\ calls' = [calls EXCEPT ![u][b] = @ + 1]
    /\ lateCall' = (lateCall \/ cancelled)
    /\ UNCHANGED <<mpVars, nameVars, sources, recursive, backupers, signal, cancelled, exit, wPc, wSrc, wEnt,
                   ePc, spawned, wg, units, afterCancel, result,
                   stPc, final, mu, open, drPc, drMsg, drCancelled, seen>>

\* UploadReturn that cancels the context of the run when Upload returns an error.
UploadReturnFailFast(u, b, r) ==
    /\ Running /\ upPc[u][b] = "inUpload"
    /\ upPc' = [upPc EXCEPT ![u][b] = "sendres"]
    /\ result' = [result EXCEPT ![u][b] = r]
    /\ cancelled' = (cancelled \/ r = MsgERR)
    /\ UNCHANGED <<mpVars, nameVars, sources, recursive, backupers, signal, exit, wPc, wSrc, wEnt,
                   ePc, spawned, wg, units, afterCancel, calls, lateCall,
                   stPc, final, mu, open, drPc, drMsg, drCancelled, seen>>

\* worker.Upload returns nil (MsgOK) or an error (MsgERR).
UploadReturn(u, b, r) ==
    /\ Running /\ upPc[u][b] = "inUpload"
    /\ upPc' = [upPc EXCEPT ![u][b] = "sendres"]
    /\ result' = [result EXCEPT ![u][b] = r]
    /\ UNCHANGED <<mpVars, nameVars, sources, recursive, backupers, signal, cancelled, exit, wPc, wSrc, wEnt,
                   ePc, spawned, wg, units, afterCancel, calls, lateCall,
                   stPc, final, mu, open, drPc, drMsg, drCancelled, seen>>

\* deferred wg.Done()
UploadWgDone(u, b) ==
    /\ Running /\ upPc[u][b] = "wgdone"
    /\ upPc' = [upPc EXCEPT ![u][b] = "close"]
    /\ wg' = wg - 1
    /\ UNCHANGED <<mpVars, nameVars, sources, recursive, backupers, signal, cancelled, exit, wPc, wSrc, wEnt,
                   ePc, spawned, units, afterCancel, calls, lateCall, result,
                   stPc, final, mu, open, drPc, drMsg, drCancelled, seen>>

\* deferred close(status)
UploadClose(u, b) ==
    /\ Running /\ upPc[u][b] = "close"
    /\ upPc' = [upPc EXCEPT ![u][b] = "done"]
    /\ UNCHANGED <<mpVars, nameVars, sources, recursive, backupers, signal, cancelled, exit, wPc, wSrc, wEnt,
                   ePc, spawned, wg, units, afterCancel, calls, lateCall, result,
                   stPc, final, mu, open, drPc, drMsg, drCancelled, seen>>

\* ---------------------------------------------------------------------- status
\* Entry of status(): names, final[name] = "-", and the draining goroutine.
StatusInit(u) ==
    /\ Running /\ stPc[u] = "init"
    /\ final' = [final EXCEPT ![u] = [b \in Providers |->
                                        IF b \in backupers THEN "-" ELSE "none"]]
    /\ open' = [open EXCEPT ![u] = backupers]
    /\ drPc' = [drPc EXCEPT ![u] = "poll"]
    /\ stPc' = [stPc EXCEPT ![u] = "loop"]
    /\ UNCHANGED <<mpVars, nameVars, sources, recursive, backupers, signal, cancelled, exit, wPc, wSrc, wEnt,
                   ePc, spawned, wg, units, afterCancel, upPc, calls, lateCall, result,
                   mu, drMsg, drCancelled, seen>>

\* StatusLock whose ctx.Done() case can be taken before the context is done.
StatusLockAnyTime(u, last) ==
    /\ Running /\ stPc[u] = "loop" /\ mu[u] = "free"
    /\ mu' = [mu EXCEPT ![u] = "print"]
    /\ seen' = [seen EXCEPT ![u] = final[u]]
    /\ stPc' = [stPc EXCEPT ![u] = IF last THEN "lastprint" ELSE "print"]
    /\ UNCHANGED <<mpVars, nameVars, sources, recursive, backupers, signal, cancelled, exit, wPc, wSrc, wEnt,
                   ePc, spawned, wg, units, afterCancel, upPc, calls, lateCall, result,
                   final, open, drPc, drMsg, drCancelled>>

\* The select of the main loop takes a case, print() takes the mutex and reads
\* final: time.After (last = FALSE), or ctx.Done() (last = TRUE).
StatusLock(u, last) ==
    /\ Running /\ stPc[u] = "loop" /\ mu[u] = "free"
    /\ last => StatusCtxDone(u)
    /\ mu' = [mu EXCEPT ![u] = "print"]
    /\ seen' = [seen EXCEPT ![u] = final[u]]
    /\ stPc' = [stPc EXCEPT ![u] = IF last THEN "lastprint" ELSE "print"]
    /\ UNCHANGED <<mpVars, nameVars, sources, recursive, backupers, signal, cancelled, exit, wPc, wSrc, wEnt,
                   ePc, spawned, wg, units, afterCancel, upPc, calls, lateCall, result,
                   final, open, drPc, drMsg, drCancelled>>

\* print() has written the line it read from final and releases the mutex;
\* after the last print status() returns and its deferred wg.Done() runs.
StatusRender(u) ==
    /\ Running /\ stPc[u] \in {"print", "lastprint"}
    /\ mu' = [mu EXCEPT ![u] = "free"]
    /\ seen' = [seen EXCEPT ![u] = NoneMap]
    /\ IF stPc[u] = "lastprint"
         THEN stPc' = [stPc EXCEPT ![u] = "done"] /\ wg' = wg - 1
         ELSE stPc' = [stPc EXCEPT ![u] = "loop"] /\ UNCHANGED wg
    /\ UNCHANGED <<mpVars, nameVars, sources, recursive, backupers, signal, cancelled, exit, wPc, wSrc, wEnt,
                   ePc, spawned, units, afterCancel, upPc, calls, lateCall, result,
                   final, open, drPc, drMsg, drCancelled>>

\* The message a blocked sender of channel (u, b) offers.
Offered(u, b) == IF upPc[u][b] = "start" THEN MsgPending ELSE result[u][b]

\* DrainRecv of a draining goroutine that stops receiving once main is cancelled.
DrainRecvUntilCancel(u, b) ==
    /\ Running /\ drPc[u] = "poll" /\ b \in open[u]
    /\ ~cancelled
    /\ upPc[u][b] \in {"start", "sendres"}
    /\ drMsg' = [drMsg EXCEPT ![u] = <<b, Offered(u, b)>>]
    /\ drPc' = [drPc EXCEPT ![u] = "got"]
    /\ upPc' = [upPc EXCEPT ![u][b] = IF @ = "start" THEN "call" ELSE "wgdone"]
    /\ UNCHANGED <<mpVars, nameVars, sources, recursive, backupers, signal, cancelled, exit, wPc, wSrc, wEnt,
                   ePc, spawned, wg, units, afterCancel, calls, lateCall, result,
                   stPc, final, mu, open, drCancelled, seen>>

\* case msg, ok := <-notify with ok: a blocked send of upload() is received.
DrainRecv(u, b) ==
    /\ Running /\ drPc[u] = "poll" /\ b \in open[u]
    /\ upPc[u][b] \in {"start", "sendres"}
    /\ drMsg' = [drMsg EXCEPT ![u] = <<b, Offered(u, b)>>]
    /\ drPc' = [drPc EXCEPT ![u] = "got"]
    /\ upPc' = [upPc EXCEPT ![u][b] = IF @ = "start" THEN "call" ELSE "wgdone"]
    /\ UNCHANGED <<mpVars, nameVars, sources, recursive, backupers, signal, cancelled, exit, wPc, wSrc, wEnt,
                   ePc, spawned, wg, units, afterCancel, calls, lateCall, result,
                   stPc, final, mu, open, drCancelled, seen>>

\* case msg, ok := <-notify with !ok: delete(statuses, name).
DrainClosed(u, b) ==
    /\ Running /\ drPc[u] = "poll" /\ b \in open[u]
    /\ upPc[u][b] = "done"
    /\ open' = [open EXCEPT ![u] = @ \ {b}]
    /\ UNCHANGED <<mpVars, nameVars, sources, recursive, backupers, signal, cancelled, exit, wPc, wSrc, wEnt,
                   ePc, spawned, wg, units, afterCancel, upPc, calls, lateCall, result,
                   stPc, final, mu, drPc, drMsg, drCancelled, seen>>

\* DrainLock that does not wait for the mutex to be free.
DrainLockNoMutex(u) ==
    /\ Running /\ drPc[u] = "got"
    /\ mu' = [mu EXCEPT ![u] = "drain"]
    /\ drPc' = [drPc EXCEPT ![u] = "locked"]
    /\ UNCHANGED <<mpVars, nameVars, sources, recursive, backupers, signal, cancelled, exit, wPc, wSrc, wEnt,
                   ePc, spawned, wg, units, afterCancel, upPc, calls, lateCall, result,
                   stPc, final, open, drMsg, drCancelled, seen>>

\* mu.Lock() of the draining goroutine.
DrainLock(u) ==
    /\ Running /\ drPc[u] = "got" /\ mu[u] = "free"
    /\ mu' = [mu EXCEPT ![u] = "drain"]
    /\ drPc' = [drPc EXCEPT ![u] = "locked"]
    /\ UNCHANGED <<mpVars, nameVars, sources, recursive, backupers, signal, cancelled, exit, wPc, wSrc, wEnt,
                   ePc, spawned, wg, units, afterCancel, upPc, calls, lateCall, result,
                   stPc, final, open, drMsg, drCancelled, seen>>

\* DrainWrite that stores the message under any name of the statuses map.
DrainWriteAnyName(u) ==
    /\ Running /\ drPc[u] = "locked"
    /\ \E b \in backupers : final' = [final EXCEPT ![u][b] = drMsg[u][2]]
    /\ mu' = [mu EXCEPT ![u] = "free"]
    /\ drPc' = [drPc EXCEPT ![u] = "poll"]
    /\ drMsg' = [drMsg EXCEPT ![u] = <<>>]
    /\ UNCHANGED <<mpVars, nameVars, sources, recursive, backupers, signal, cancelled, exit, wPc, wSrc, wEnt,
                   ePc, spawned, wg, units, afterCancel, upPc, calls, lateCall, result,
                   stPc, open, drCancelled, seen>>

\* final[name] = msg; mu.Unlock().
DrainWrite(u) ==
    /\ Running /\ drPc[u] = "locked"
    /\ final' = [final EXCEPT ![u][drMsg[u][1]] = drMsg[u][2]]
    /\ mu' = [mu EXCEPT ![u] = "free"]
    /\ drPc' = [drPc EXCEPT ![u] = "poll"]
    /\ drMsg' = [drMsg EXCEPT ![u] = <<>>]
    /\ UNCHANGED <<mpVars, nameVars, sources, recursive, backupers, signal, cancelled, exit, wPc, wSrc, wEnt,
                   ePc, spawned, wg, units, afterCancel, upPc, calls, lateCall, result,
                   stPc, open, drCancelled, seen>>

\* len(statuses) == 0: the loop ends and the goroutine calls cancel().
DrainCancel(u) ==
    /\ Running /\ drPc[u] = "poll" /\ open[u] = {}
    /\ drCancelled' = [drCancelled EXCEPT ![u] = TRUE]
    /\ drPc' = [drPc EXCEPT ![u] = "done"]
    /\ UNCHANGED <<mpVars, nameVars, sources, recursive, backupers, signal, cancelled, exit, wPc, wSrc, wEnt,
                   ePc, spawned, wg, units, afterCancel, upPc, calls, lateCall, result,
                   stPc, final, mu, open, drMsg, seen>>

NextEngine ==
    \/ Cancel
    \/ WalkSelect
    \/ WalkCheck
    \/ EngineRecv
    \/ \E b \in Providers : EngineSpawn(b)
    \/ EngineSpawnStatus
    \/ EngineWait
    \/ EngineReturn
    \/ \E u \in Units, b \in Providers : UploadBegin(u, b)
    \/ \E u \in Units, b \in Providers, r \in Terminal : UploadReturn(u, b, r)
    \/ \E u \in Units, b \in Providers : UploadWgDone(u, b)
    \/ \E u \in Units, b \in Providers : UploadClose(u, b)
    \/ \E u \in Units : StatusInit(u)
    \/ \E u \in Units, last \in BOOLEAN : StatusLock(u, last)
    \/ \E u \in Units : StatusRender(u)
    \/ \E u \in Units, b \in Providers : DrainRecv(u, b)
    \/ \E u \in Units, b \in Providers : DrainClosed(u, b)
    \/ \E u \in Units : DrainLock(u)
    \/ \E u \in Units : DrainWrite(u)
    \/ \E u \in Units : DrainCancel(u)

\* ============================================================ multiPartUpload
\* Most whole chunks in an object.
MaxChunks == 11

MB == 1024 * 1024
chunkSize == 16 * MB
\* Capacity of the channel sem.
SemCap == 10

\* Sizes around every multiple of the chunk size, and between two multiples.
Offsets == {-1, 0, 1, chunkSize \div 2}
Sizes == {s \in {k * chunkSize + d : k \in 0..MaxChunks, d \in Offsets} : s >= 0}

\* What the string errs holds: a list of chunk errors, or the text it is
\* overwritten with when the context was cancelled.
TextChunk == "chunk error"
TextCanceled == "Operation was canceled"

NoParts == [call |-> 0, retOk |-> 0, retErr |-> 0, send |-> 0]

mpRest == <<nameVars, sources, recursive, backupers, signal, exit, wPc, wSrc, wEnt,
            ePc, spawned, wg, units, afterCancel, upPc, calls, lateCall, result,
            stPc, final, mu, open, drPc, drMsg, drCancelled, seen>>

\* The multipart state of a run in which multiPartUpload is not looked at.
InitMPIdle ==
    /\ size = 0 /\ mpPc = "idle"
    /\ mpStart = 0 /\ mpEnd = 0 /\ mpI = 0
    /\ sem = 0 /\ mpWg = 0 /\ parts = NoParts /\ closer = "none"
    /\ errs = FALSE /\ errText = "" /\ ranges = <<>> /\ lateLaunch = FALSE /\ anyPartErr = FALSE
    /\ inits = 0 /\ completes = 0 /\ singles = 0 /\ mpResult = "none"

\* Entry of multiPartUpload for a file of some size.
InitMP ==
    /\ size \in Sizes /\ mpPc = "start"
    /\ mpStart = 0 /\ mpEnd = 0 /\ mpI = 0
    /\ sem = 0 /\ mpWg = 0 /\ parts = NoParts /\ closer = "none"
    /\ errs = FALSE /\ errText = "" /\ ranges = <<>> /\ lateLaunch = FALSE /\ anyPartErr = FALSE
    /\ inits = 0 /\ completes = 0 /\ singles = 0 /\ mpResult = "none"

\* file.Stat() fails: return nil, fmt.Errorf("cannot open get file info").
MPStatFail ==
    /\ mpPc = "start"
    /\ mpPc' = "returned" /\ mpResult' = "staterr"
    /\ UNCHANGED <<size, mpStart, mpEnd, mpI, sem, mpWg, parts, closer, errs, errText,
                   ranges, lateLaunch, anyPartErr, inits, completes, singles>>
    /\ UNCHANGED <<mpRest, cancelled>>

\* MPStart with the test for a small object lost: every object goes multipart.
MPStartAlwaysMultipart ==
    /\ mpPc = "start"
    /\ mpPc' = "initiate"
    /\ UNCHANGED <<size, mpStart, mpEnd, mpI, sem, mpWg, parts, closer, errs, errText,
                   ranges, lateLaunch, anyPartErr, inits, completes, singles, mpResult>>
    /\ UNCHANGED <<mpRest, cancelled>>

\* chunks := int(size / chunkSize); if chunks < 1 { return svc.singleUpload(...) }
MPStart ==
    /\ mpPc = "start"
    /\ mpPc' = IF size \div chunkSize < 1 THEN "single" ELSE "initiate"
    /\ UNCHANGED <<size, mpStart, mpEnd, mpI, sem, mpWg, parts, closer, errs, errText,
                   ranges, lateLaunch, anyPartErr, inits, completes, singles, mpResult>>
    /\ UNCHANGED <<mpRest, cancelled>>

\* singleUpload: name is not empty here, so UploadArchiveWithContext is called.
MPSingle(r) ==
    /\ mpPc = "single"
    /\ singles' = singles + 1
    /\ mpResult' = r /\ mpPc' = "returned"
    /\ UNCHANGED <<size, mpStart, mpEnd, mpI, sem, mpWg, parts, closer, errs, errText,
                   ranges, lateLaunch, anyPartErr, inits, completes>>
    /\ UNCHANGED <<mpRest, cancelled>>

\* InitiateMultipartUploadWithContext; on an error multiPartUpload returns it.
MPInitiate(r) ==
    /\ mpPc = "initiate"
    /\ inits' = inits + 1
    /\ IF r = "ok"
         THEN /\ mpPc' = "launch"
              /\ mpStart' = 0 /\ mpEnd' = chunkSize - 1 /\ mpI' = 0
              /\ UNCHANGED mpResult
         ELSE /\ mpPc' = "returned" /\ mpResult' = "failed"
              /\ UNCHANGED <<mpStart, mpEnd, mpI>>
    /\ UNCHANGED <<size, sem, mpWg, parts, closer, errs, errText,
                   ranges, lateLaunch, anyPartErr, completes, singles>>
    /\ UNCHANGED <<mpRest, cancelled>>

\* MPLaunch that does not wait for a free slot of sem.
MPLaunchNoWait ==
    /\ mpPc = "launch" /\ mpStart < size
    /\ LET e == IF mpEnd > size THEN size - 1 ELSE mpEnd
           n == e - mpStart + 1
       IN  /\ ranges' = Append(ranges, [i |-> mpI, start |-> mpStart, end |-> e, n |-> n])
           /\ mpEnd' = e + chunkSize
    /\ mpStart' = mpStart + chunkSize
    /\ mpI' = mpI + 1
    /\ sem' = sem + 1
    /\ mpWg' = mpWg + 1
    /\ parts' = [parts EXCEPT !.call = @ + 1]
    /\ lateLaunch' = (lateLaunch \/ cancelled)
    /\ UNCHANGED <<size, mpPc, closer, errs, errText, anyPartErr, inits, completes,
                   singles, mpResult>>
    /\ UNCHANGED <<mpRest, cancelled>>

\* One turn of the launch loop: clamp end, sem <- 1, wg.Add(1), go uploadPart,
\* then start, end, i = start+chunkSize, end+chunkSize, i+1.
MPLaunch ==
    /\ mpPc = "launch" /\ mpStart < size
    /\ sem < SemCap
    /\ LET e == IF mpEnd > size THEN size - 1 ELSE mpEnd
           n == e - mpStart + 1
       IN  /\ ranges' = Append(ranges, [i |-> mpI, start |-> mpStart, end |-> e, n |-> n])
           /\ mpEnd' = e + chunkSize
    /\ mpStart' = mpStart + chunkSize
    /\ mpI' = mpI + 1
    /\ sem' = sem + 1
    /\ mpWg' = mpWg + 1
    /\ parts' = [parts EXCEPT !.call = @ + 1]
    /\ lateLaunch' = (lateLaunch \/ cancelled)
    /\ UNCHANGED <<size, mpPc, closer, errs, errText, anyPartErr, inits, completes,
                   singles, mpResult>>
    /\ UNCHANGED <<mpRest, cancelled>>

\* The loop condition start < size fails: go func() { wg.Wait(); close(errorc) }()
MPLaunchEnd ==
    /\ mpPc = "launch" /\ mpStart >= size
    /\ closer' = "waiting"
    /\ mpPc' = "collect"
    /\ UNCHANGED <<size, mpStart, mpEnd, mpI, sem, mpWg, parts, errs, errText,
                   ranges, lateLaunch, anyPartErr, inits, completes, singles, mpResult>>
    /\ UNCHANGED <<mpRest, cancelled>>

\* UploadMultipartPartWithContext of some part returns, with or without an error.
PartReturn(r) ==
    /\ parts.call > 0
    /\ parts' = IF r = "ok"
                  THEN [parts EXCEPT !.call = @ - 1, !.retOk = @ + 1]
                  ELSE [parts EXCEPT !.call = @ - 1, !.retErr = @ + 1]
    /\ anyPartErr' = (anyPartErr \/ r # "ok")
    /\ UNCHANGED <<size, mpPc, mpStart, mpEnd, mpI, sem, mpWg, closer, errs, errText,
                   ranges, lateLaunch, inits, completes, singles, mpResult>>
    /\ UNCHANGED <<mpRest, cancelled>>

\* <-sem of a part whose call returned nil; the part ends: deferred wg.Done().
PartReleaseOk ==
    /\ parts.retOk > 0
    /\ sem' = sem - 1
    /\ parts' = [parts EXCEPT !.retOk = @ - 1]
    /\ mpWg' = mpWg - 1
    /\ UNCHANGED <<size, mpPc, mpStart, mpEnd, mpI, closer, errs, errText,
                   ranges, lateLaunch, anyPartErr, inits, completes, singles, mpResult>>
    /\ UNCHANGED <<mpRest, cancelled>>

\* PartReleaseErr that goes on to errorc <- err before it has received from sem.
PartSendHoldingSlot ==
    /\ parts.retErr > 0
    /\ parts' = [parts EXCEPT !.retErr = @ - 1, !.send = @ + 1]
    /\ UNCHANGED <<size, mpPc, mpStart, mpEnd, mpI, sem, mpWg, closer, errs, errText,
                   ranges, lateLaunch, anyPartErr, inits, completes, singles, mpResult>>
    /\ UNCHANGED <<mpRest, cancelled>>

\* <-sem of a part whose call returned an error; it goes on to errorc <- err.
PartReleaseErr ==
    /\ parts.retErr > 0
    /\ sem' = sem - 1
    /\ parts' = [parts EXCEPT !.retErr = @ - 1, !.send = @ + 1]
    /\ UNCHANGED <<size, mpPc, mpStart, mpEnd, mpI, mpWg, closer, errs, errText,
                   ranges, lateLaunch, anyPartErr, inits, completes, singles, mpResult>>
    /\ UNCHANGED <<mpRest, cancelled>>

\* for err := range errorc receives what a part sends on the unbuffered channel:
\* errs grows, and the part ends with its deferred wg.Done().
MPRecvErr ==
    /\ mpPc = "collect" /\ parts.send > 0
    /\ parts' = [parts EXCEPT !.send = @ - 1]
    /\ mpWg' = mpWg - 1
    /\ errs' = TRUE
    /\ errText' = TextChunk
    /\ UNCHANGED <<size, mpPc, mpStart, mpEnd, mpI, sem, closer,
                   ranges, lateLaunch, anyPartErr, inits, completes, singles, mpResult>>
    /\ UNCHANGED <<mpRest, cancelled>>

\* wg.Wait() of the closing goroutine returns and it closes errorc.
CloserClose ==
    /\ closer = "waiting" /\ mpWg = 0
    /\ closer' = "closed"
    /\ UNCHANGED <<size, mpPc, mpStart, mpEnd, mpI, sem, mpWg, parts, errs, errText,
                   ranges, lateLaunch, anyPartErr, inits, completes, singles, mpResult>>
    /\ UNCHANGED <<mpRest, cancelled>>

\* range errorc ends on the closed channel.
MPCollectEnd ==
    /\ mpPc = "collect" /\ closer = "closed"
    /\ mpPc' = "check"
    /\ UNCHANGED <<size, mpStart, mpEnd, mpI, sem, mpWg, parts, closer, errs, errText,
                   ranges, lateLaunch, anyPartErr, inits, completes, singles, mpResult>>
    /\ UNCHANGED <<mpRest, cancelled>>

\* MPCheck that looks at the cancellation only and not at errs.
MPCheckIgnoresErrs ==
    /\ mpPc = "check"
    /\ errs' = (errs \/ cancelled)
    /\ errText' = IF cancelled THEN TextCanceled ELSE errText
    /\ IF cancelled
         THEN mpPc' = "returned" /\ mpResult' = "failed"
         ELSE mpPc' = "complete" /\ UNCHANGED mpResult
    /\ UNCHANGED <<size, mpStart, mpEnd, mpI, sem, mpWg, parts, closer,
                   ranges, lateLaunch, anyPartErr, inits, completes, singles>>
    /\ UNCHANGED <<mpRest, cancelled>>

\* if ctx.Err() == context.Canceled { errs = ... }; if errs != "" { return error }
MPCheck ==
    /\ mpPc = "check"
    /\ errs' = (errs \/ cancelled)
    /\ errText' = IF cancelled THEN TextCanceled ELSE errText
    /\ IF errs \/ cancelled
         THEN mpPc' = "returned" /\ mpResult' = "failed"
         ELSE mpPc' = "complete" /\ UNCHANGED mpResult
    /\ UNCHANGED <<size, mpStart, mpEnd, mpI, sem, mpWg, parts, closer,
                   ranges, lateLaunch, anyPartErr, inits, completes, singles>>
    /\ UNCHANGED <<mpRest, cancelled>>

\* return svc.CompleteMultipartUploadWithContext(...)
MPComplete(r) ==
    /\ mpPc = "complete"
    /\ completes' = completes + 1
    /\ mpResult' = r /\ mpPc' = "returned"
    /\ UNCHANGED <<size, mpStart, mpEnd, mpI, sem, mpWg, parts, closer, errs, errText,
                   ranges, lateLaunch, anyPartErr, inits, singles>>
    /\ UNCHANGED <<mpRest, cancelled>>

Outcomes == {"ok", "failed"}

\* What upload() sends on its status channel after Upload returned res, an
\* error carrying the text msg: the kind of the status, and the text for ERR.
StatusMsg(res, msg) == IF res = "ok" THEN <<MsgOK>> ELSE <<MsgERR, msg>>

NextMP ==
    \/ Cancel
    \/ MPStatFail
    \/ MPStart
    \/ \E r \in Outcomes : MPSingle(r)
    \/ \E r \in Outcomes : MPInitiate(r)
    \/ MPLaunch
    \/ MPLaunchEnd
    \/ \E r \in Outcomes : PartReturn(r)
    \/ PartReleaseOk
    \/ PartReleaseErr
    \/ MPRecvErr
    \/ CloserClose
    \/ MPCollectEnd
    \/ MPCheck
    \/ \E r \in Outcomes : MPComplete(r)

\* ======================================================================= names
\* Longest destination argument and longest spelling of a source, in characters.
MaxDestLen == 4
MaxSrcLen == 4

\* Characters of a destination: the two separators and any other character.
DestChars == {":", "/", "a"}
\* Characters of a source path: the separator and a character of a name.
SrcChars == {"/", "d"}
\* Where the file the walk visits lies below a directory source.
Entries == {<<"f">>, <<"s", "/", "f">>}

Strings(A, n) == UNION {[1..k -> A] : k \in 0..n}

\* The cases of TestDestParsing.
Tests == <<
    [input |-> <<"d", "a", "t", "a", "b", "a", "g", ":", "/", "s", "t", "o", "r", "a", "g", "e", "/", "n", "o", "t", "e", "s", ".", "t", "x", "t">>,
     expBucket |-> <<"d", "a", "t", "a", "b", "a", "g">>,
     expPath |-> <<"s", "t", "o", "r", "a", "g", "e", "/", "n", "o", "t", "e", "s", ".", "t", "x", "t">>],
    [input |-> <<"b", "a", "c", "k", "u", "p", "s", ":", "/">>,
     expBucket |-> <<"b", "a", "c", "k", "u", "p", "s">>,
     expPath |-> <<>>],
    [input |-> <<"b", "a", "c", "k", "u", "p", "s", ":", "/", "t", "e", "s", "t", "/", "d", "i", "r", "/">>,
     expBucket |-> <<"b", "a", "c", "k", "u", "p", "s">>,
     expPath |-> <<"t", "e", "s", "t", "/", "d", "i", "r", "/">>],
    [input |-> <<"b", "a", "c", "k", "u", "p", "s", ":">>,
     expBucket |-> <<"b", "a", "c", "k", "u", "p", "s">>,
     expPath |-> <<>>],
    [input |-> <<"b", "a", "c", "k", "u", "p", "s">>,
     expBucket |-> <<"b", "a", "c", "k", "u", "p", "s">>,
     expPath |-> <<>>]
>>

Positions(s, c) == {i \in 1..Len(s) : s[i] = c}
First(I) == CHOOSE i \in I : \A j \in I : i <= j
Last(I) == CHOOSE i \in I : \A j \in I : i >= j

\* strings.HasSuffix, strings.HasPrefix, strings.TrimPrefix
HasSuffix(s, suffix) ==
    Len(s) >= Len(suffix) /\ SubSeq(s, Len(s) - Len(suffix) + 1, Len(s)) = suffix
HasPrefix(s, prefix) ==
    Len(s) >= Len(prefix) /\ SubSeq(s, 1, Len(prefix)) = prefix
TrimPrefix(s, prefix) ==
    IF HasPrefix(s, prefix) THEN SubSeq(s, Len(prefix) + 1, Len(s)) ELSE s

\* strings.LastIndex: the index, counted from 0, of the last c in s, or -1.
LastIndex(s, c) == IF Positions(s, c) = {} THEN -1 ELSE Last(Positions(s, c)) - 1

RECURSIVE Split(_, _)
\* strings.Split(s, c): the pieces of s between the occurrences of c.
Split(s, c) ==
    IF Positions(s, c) = {} THEN <<s>>
    ELSE LET i == First(Positions(s, c))
         IN  <<SubSeq(s, 1, i - 1)>> \o Split(SubSeq(s, i + 1, Len(s)), c)

\* strings.SplitN(s, c, 2): s cut at the first c only.
SplitN2(s, c) ==
    IF Positions(s, c) = {} THEN <<s>>
    ELSE LET i == First(Positions(s, c))
         IN  <<SubSeq(s, 1, i - 1), SubSeq(s, i + 1, Len(s))>>

RECURSIVE Join(_, _)
\* strings.Join(a, c)
Join(a, c) ==
    IF a = <<>> THEN <<>>
    ELSE IF Len(a) = 1 THEN a[1]
    ELSE a[1] \o <<c>> \o Join(Tail(a), c)

NotEmpty(part) == part # <<>>

\* parseDest(dest) (bucket, path)
parseDest(d0) ==
    LET d == SplitN2(d0, ":")
        kept == IF Len(d) > 1 THEN SelectSeq(Split(d[2], "/"), NotEmpty) ELSE <<>>
        end == IF Len(d) > 1 /\ d[2] # <<"/">> /\ HasSuffix(d0, <<"/">>)
                 THEN <<"/">> ELSE <<>>
    IN  <<d[1], TrimPrefix(Join(kept, "/"), <<"/">>) \o end>>

\* filepath.Clean for a path of separators and names (no "." or ".." element):
\* repeated separators become one and a trailing separator goes, the root stays.
Clean(p) ==
    LET names == Join(SelectSeq(Split(p, "/"), NotEmpty), "/")
    IN  IF HasPrefix(p, <<"/">>) THEN <<"/">> \o names ELSE names

\* The path filepath.Walk hands to the callback for the entry e below root:
\* filepath.Join(root, e).
WalkPath(root, e) == Clean(root \o <<"/">> \o e)

\* prefix of walkSources: source up to its last separator, "" when that
\* separator is the first character or there is none.
Prefix(source) ==
    LET idx == LastIndex(source, "/")
    IN  IF idx > 0 THEN SubSeq(source, 1, idx) ELSE <<>>

\* The srcFile walkSources sends for the source x.
Emitted(x) ==
    LET p == IF x.isDir THEN WalkPath(x.name, x.entry) ELSE x.name
    IN  [path |-> p, base |-> TrimPrefix(p, Prefix(x.name))]

\* dest of the loop over backupers in runBackups, for path p and srcFile f.
UnitDest(p, f) ==
    LET base == TrimPrefix(f.base, <<"/">>)
    IN  IF HasSuffix(p, <<"/">>) THEN p \o base
        ELSE IF Len(p) <= 0 THEN base
        ELSE p

\* A plain file cannot be spelled with a trailing separator; a directory can be
\* spelled in any way and holds the entry the walk visits.
Srcs ==
    {[name |-> n, isDir |-> FALSE, entry |-> <<>>] :
         n \in {m \in Strings(SrcChars, MaxSrcLen) : m # <<>> /\ ~HasSuffix(m, <<"/">>)}}
    \cup {[name |-> n, isDir |-> TRUE, entry |-> e] :
              n \in Strings(SrcChars, MaxSrcLen) \ {<<>>}, e \in Entries}

Dests == Strings(DestChars, MaxDestLen) \cup {Tests[i].input : i \in 1..Len(Tests)}

NoFile == [path |-> <<>>, base |-> <<>>]
NoDest == [b \in Providers |-> <<"-">>]
NotBuilt == [b \in Providers |-> <<"-">>]

\* The name state of a run in which names are not looked at.
InitNamesIdle ==
    /\ destArg = <<>> /\ bucketName = NotBuilt
    /\ dest = <<>> /\ srcArg = [name |-> <<>>, isDir |-> FALSE, entry |-> <<>>]
    /\ nmPc = "idle"
    /\ bucket = <<>> /\ path = <<>> /\ rebucket = <<>> /\ repath = <<>>
    /\ file = NoFile /\ upDest = NoDest

\* One destination argument and one source, before runBackups parses dest.
InitNames ==
    /\ destArg = <<>> /\ bucketName = NotBuilt
    /\ dest \in Dests /\ srcArg \in Srcs
    /\ nmPc = "parse"
    /\ bucket = <<>> /\ path = <<>> /\ rebucket = <<>> /\ repath = <<>>
    /\ file = NoFile /\ upDest = NoDest

nameRest == <<engineVars, mpVars, destArg, bucketName, dest, srcArg, gkVars>>

\* bucket, path := parseDest(dest)
ParseDest ==
    /\ nmPc = "parse"
    /\ LET r == parseDest(dest) IN bucket' = r[1] /\ path' = r[2]
    /\ nmPc' = "reparse"
    /\ UNCHANGED <<nameRest, rebucket, repath, file, upDest>>

\* parseDest applied to its own output, written again as bucket:path.
Reparse ==
    /\ nmPc = "reparse"
    /\ LET r == parseDest(bucket \o <<":">> \o path) IN rebucket' = r[1] /\ repath' = r[2]
    /\ nmPc' = "walk"
    /\ UNCHANGED <<nameRest, bucket, path, file, upDest>>

\* walkSources sends the srcFile of the source, runBackups receives it.
WalkEmit ==
    /\ nmPc = "walk"
    /\ file' = Emitted(srcArg)
    /\ nmPc' = "spawn"
    /\ UNCHANGED <<nameRest, bucket, path, rebucket, repath, upDest>>

\* MakeDest that appends the name of the unit to every prefix.
MakeDestAlwaysAppend(b) ==
    /\ nmPc = "spawn" /\ b \in backupers /\ upDest[b] = NoDest[b]
    /\ upDest' = [upDest EXCEPT ![b] = path \o TrimPrefix(file.base, <<"/">>)]
    /\ UNCHANGED <<nameRest, nmPc, bucket, path, rebucket, repath, file>>

\* One turn of the loop over backupers: dest is computed and go upload(...).
MakeDest(b) ==
    /\ nmPc = "spawn" /\ b \in backupers /\ upDest[b] = NoDest[b]
    /\ upDest' = [upDest EXCEPT ![b] = UnitDest(path, file)]
    /\ UNCHANGED <<nameRest, nmPc, bucket, path, rebucket, repath, file>>

\* dest := flag.Arg(num - 1), with "/" appended when there are several sources
\* or the first source is a directory and -r was given (os.Stat of a source
\* returns no error). num - 1 is the number of sources.
MainDest ==
    /\ nmPc = "main"
    /\ dest' = IF Len(sources) + 1 > 2 \/ (recursive /\ sources[1].isDir)
                 THEN destArg \o <<"/">> ELSE destArg
    /\ nmPc' = "parse"
    /\ UNCHANGED <<engineVars, mpVars, destArg, bucketName, srcArg,
                   bucket, path, rebucket, repath, file, upDest, gkVars>>

\* One turn of the loop over providers, after parseDest returned:
\* gpcs.New(ctx, bucket, cnf.ini) or awsglacier.New(ctx, bucket, cnf.ini).
NewBackend(b) ==
    /\ nmPc = "reparse" /\ b \in backupers /\ bucketName[b] = NotBuilt[b]
    /\ bucketName' = [bucketName EXCEPT ![b] = bucket]
    /\ UNCHANGED <<engineVars, mpVars, destArg, dest, srcArg, nmPc,
                   bucket, path, rebucket, repath, file, upDest, gkVars>>

NextMain ==
    \/ MainDest
    \/ ParseDest
    \/ \E b \in Providers : NewBackend(b)

NextNames ==
    \/ ParseDest
    \/ Reparse
    \/ WalkEmit
    \/ \E b \in Providers : MakeDest(b)

\* ====================================================== cloud.GetKeyValues
MaxKeys == 2
MaxValLen == 2

\* The key names New asks for: awsglacier "region", gpcs "projectID".
KeyNames == {"region", "projectID"}
ValChars == {" ", "v"}
Absent == <<"absent">>
ErrNil == <<"nil">>

\* strings.TrimSpace
RECURSIVE TrimSpace(_)
TrimSpace(s) ==
    IF s = <<>> THEN s
    ELSE IF s[1] = " " THEN TrimSpace(Tail(s))
    ELSE IF s[Len(s)] = " " THEN TrimSpace(SubSeq(s, 1, Len(s) - 1))
    ELSE s

\* cnf.Haskey(key)
Haskey(section, key) == section[key] # Absent

\* GetKeyValues is not running.
InitCfgIdle ==
    /\ keys = <<>> /\ cnf = [k \in KeyNames |-> Absent]
    /\ gkPc = "idle" /\ gkI = 0
    /\ values = <<>> /\ missing = <<>> /\ empty = <<>> /\ err = ErrNil

\* Entry of GetKeyValues: values = make(map), missing and empty nil, err nil.
InitCfg ==
    /\ keys \in UNION {[1..n -> KeyNames] : n \in 0..MaxKeys}
    /\ cnf \in [KeyNames -> {Absent} \cup Strings(ValChars, MaxValLen)]
    /\ gkPc = "loop" /\ gkI = 1
    /\ values = <<>> /\ missing = <<>> /\ empty = <<>> /\ err = ErrNil

gkRest == <<engineVars, mpVars, destArg, bucketName, dest, srcArg, nmPc, bucket, path,
            rebucket, repath, file, upDest, keys, cnf>>

\* One turn of for _, key := range keys.
GKIter ==
    /\ gkPc = "loop" /\ gkI <= Len(keys)
    /\ LET key == keys[gkI]
           v == TrimSpace(cnf[key])
       IN  IF ~Haskey(cnf, key)
             THEN missing' = Append(missing, key) /\ UNCHANGED <<empty, values>>
           ELSE IF v = <<>>
             THEN empty' = Append(empty, key) /\ UNCHANGED <<missing, values>>
           ELSE /\ values' = [k \in DOMAIN values \cup {key} |->
                                IF k = key THEN v ELSE values[k]]
                /\ UNCHANGED <<missing, empty>>
    /\ gkI' = gkI + 1
    /\ UNCHANGED <<gkRest, gkPc, err>>

\* if len(missing) > 0 { err = fmt.Errorf("missing required ...", missing) }
GKMissing ==
    /\ gkPc = "loop" /\ gkI > Len(keys)
    /\ err' = IF Len(missing) > 0 THEN <<"missing", missing>> ELSE err
    /\ gkPc' = "empty"
    /\ UNCHANGED <<gkRest, gkI, values, missing, empty>>

\* if len(empty) > 0 { err = fmt.Errorf("...%s%v", empty, ","+err.Error()) }
\* and return values, err. err.Error() on the nil err is a nil dereference:
\* the goroutine panics.
GKEmpty ==
    /\ gkPc = "empty"
    /\ IF Len(empty) > 0 /\ err = ErrNil
         THEN gkPc' = "panic" /\ UNCHANGED err
         ELSE /\ err' = IF Len(empty) > 0 THEN <<"empty", empty, err>> ELSE err
              /\ gkPc' = "returned"
    /\ UNCHANGED <<gkRest, gkI, values, missing, empty>>

NextCfg ==
    \/ GKIter
    \/ GKMissing
    \/ GKEmpty

\* ============================================================= specifications
vars == <<engineVars, mpVars, nameVars>>

\* A run of main.
Init == InitEngine /\ InitMPIdle /\ InitNamesIdle /\ InitCfgIdle

Next == NextEngine

Spec == Init /\ [][Next]_vars

\* One call of multiPartUpload, made by the Upload of the Amazon backend for a
\* plain file; the goroutines of the engine are not looked at.
InitUpload ==
    /\ InitCfgIdle
    /\ InitEngine
    /\ sources = <<[isDir |-> FALSE, nfiles |-> 1]>>
    /\ recursive = FALSE
    /\ backupers = {"Amazon"}
    /\ InitMP
    /\ InitNamesIdle

SpecMP == InitUpload /\ [][NextMP]_vars

\* The names of one unit: the destination argument and one source, from
\* parseDest to the dest every backend is handed.
InitUnitNames ==
    /\ InitCfgIdle
    /\ InitNames
    /\ InitEngine
    /\ sources = <<[isDir |-> srcArg.isDir, nfiles |-> 1]>>
    /\ recursive = srcArg.isDir
    /\ backupers = Providers
    /\ InitMPIdle

SpecNames == InitUnitNames /\ [][NextNames]_vars


\* A run of main on one backend with up to MaxArgs sources, each a plain file
\* or a directory of at most one file.
MaxArgs == 2

ArgKinds == {k \in SourceKinds : k.nfiles <= 1}

InitArgs ==
    /\ InitCfgIdle
    /\ sources \in UNION {[1..n -> ArgKinds] : n \in 1..MaxArgs}
    /\ recursive \in BOOLEAN
    /\ backupers = {"Amazon"}
    /\ EngineStart
    /\ InitMPIdle
    /\ InitNamesIdle

SpecArgs == InitArgs /\ [][Next]_vars

\* main from the destination argument to the construction of the backends, for
\* every destination string, one or several sources, with and without -r.
InitMain ==
    /\ InitCfgIdle
    /\ sources \in UNION {[1..n -> ArgKinds] : n \in 1..MaxArgs}
    /\ recursive \in BOOLEAN
    /\ backupers \in (SUBSET Providers) \ {{}}
    /\ EngineStart
    /\ InitMPIdle
    /\ destArg \in Dests /\ bucketName = NotBuilt
    /\ dest = <<>> /\ srcArg = [name |-> <<>>, isDir |-> FALSE, entry |-> <<>>]
    /\ nmPc = "main"
    /\ bucket = <<>> /\ path = <<>> /\ rebucket = <<>> /\ repath = <<>>
    /\ file = NoFile /\ upDest = NoDest

SpecMain == InitMain /\ [][NextMain]_vars

\* One call of GetKeyValues, for every list of required keys and every section.
InitGetKeyValues ==
    /\ InitCfg
    /\ sources = <<[isDir |-> FALSE, nfiles |-> 1]>>
    /\ recursive = FALSE
    /\ backupers = {"Amazon"}
    /\ EngineStart
    /\ InitMPIdle
    /\ destArg = <<>> /\ bucketName = NotBuilt
    /\ dest = <<>> /\ srcArg = [name |-> <<>>, isDir |-> FALSE, entry |-> <<>>]
    /\ nmPc = "idle"
    /\ bucket = <<>> /\ path = <<>> /\ rebucket = <<>> /\ repath = <<>>
    /\ file = NoFile /\ upDest = NoDest

SpecCfg == InitGetKeyValues /\ [][NextCfg]_vars

\* multiPartUpload when every goroutine that can take a step takes one in the
\* end and every network call returns; the interrupt may or may not come.
FairMP ==
    /\ WF_vars(MPStatFail \/ MPStart)
    /\ WF_vars(\E r \in Outcomes : MPSingle(r))
    /\ WF_vars(\E r \in Outcomes : MPInitiate(r))
    /\ WF_vars(MPLaunch)
    /\ WF_vars(MPLaunchEnd)
    /\ WF_vars(\E r \in Outcomes : PartReturn(r))
    /\ WF_vars(PartReleaseOk)
    /\ WF_vars(PartReleaseErr)
    /\ WF_vars(MPRecvErr)
    /\ WF_vars(CloserClose)
    /\ WF_vars(MPCollectEnd)
    /\ WF_vars(MPCheck)
    /\ WF_vars(\E r \in Outcomes : MPComplete(r))

FairSpecMP == InitUpload /\ [][NextMP]_vars /\ FairMP

\* A run of main when every goroutine that can take a step takes one in the end
\* and every Backuper.Upload call returns; the interrupt may or may not come.
\* A select takes a case that stays ready, and a goroutine that waits for the
\* mutex gets it: strong fairness for the ctx.Done() case and for mu.Lock().
FairEngine ==
    /\ WF_vars(WalkSelect)
    /\ WF_vars(WalkCheck)
    /\ WF_vars(EngineRecv)
    /\ WF_vars(\E b \in Providers : EngineSpawn(b))
    /\ WF_vars(EngineSpawnStatus)
    /\ WF_vars(EngineWait)
    /\ WF_vars(EngineReturn)
    /\ WF_vars(\E u \in Units, b \in Providers : UploadBegin(u, b))
    /\ WF_vars(\E u \in Units, b \in Providers, r \in Terminal : UploadReturn(u, b, r))
    /\ WF_vars(\E u \in Units, b \in Providers : UploadWgDone(u, b))
    /\ WF_vars(\E u \in Units, b \in Providers : UploadClose(u, b))
    /\ WF_vars(\E u \in Units : StatusInit(u))
    /\ SF_vars(\E u \in Units : StatusLock(u, TRUE))
    /\ WF_vars(\E u \in Units : StatusRender(u))
    /\ WF_vars(\E u \in Units, b \in Providers : DrainRecv(u, b))
    /\ WF_vars(\E u \in Units, b \in Providers : DrainClosed(u, b))
    /\ SF_vars(\E u \in Units : DrainLock(u))
    /\ WF_vars(\E u \in Units : DrainWrite(u))
    /\ WF_vars(\E u \in Units : DrainCancel(u))

\* Most Backuper.Upload calls, units times backends, of a run that is checked
\* for termination.
MaxFairUploads == 2

InitFair ==
    /\ InitCfgIdle
    /\ InitEngine
    /\ Cardinality(backupers) * EntriesFrom(1) <= MaxFairUploads
    /\ InitMPIdle
    /\ InitNamesIdle

FairSpec == InitFair /\ [][Next]_vars /\ FairEngine

\* ====================================================================== claims
\* Discovery order of walkSources: by source, then by entry of the walk.
Before(a, b) == a[1] < b[1] \/ (a[1] = b[1] /\ a[2] < b[2])

\* Backuper.Upload of (u, b) was called and has returned.
Returned(u, b) == upPc[u][b] \in {"sendres", "wgdone", "close", "done"}

\* The engine is past unit u: its wg.Wait() for u has returned.
Past(u) == u < Len(units) \/ ePc \in {"recv", "returned"}

RECURSIVE CallsFrom(_)
\* Number of Upload invocations for the units from the u-th on.
CallsFrom(u) ==
    IF u > Len(units) THEN 0
    ELSE calls[u]["Amazon"] + calls[u]["Google"] + CallsFrom(u + 1)

\* C1: units are started in the order walkSources emits them, and once a later
\* unit has been handed to the engine every Upload call of every earlier unit
\* has been made and has returned, so no Upload of unit k+1 begins before all
\* N Upload calls of unit k returned.
C1_FanOutInOrder ==
    \A k \in Units, j \in Units :
        k < j => /\ Before(units[k], units[j])
                 /\ \A a \in backupers : calls[k][a] = 1 /\ Returned(k, a)

\* Two backends, and an Upload of the second unit is running.
C1_Witness ==
    /\ backupers = Providers /\ Len(units) = 2
    /\ \E b \in backupers : upPc[2][b] = "inUpload"

\* C2: Upload is invoked at most once per (unit, backend), never for a backend
\* that is not configured, exactly once for each backend of every unit the
\* engine is past, and N*M times in all when runBackups returns.
C2_ExactlyOncePerPair ==
    /\ \A u \in Units, b \in Providers :
           calls[u][b] <= 1 /\ (b \notin backupers => calls[u][b] = 0)
    /\ \A u \in Units : Past(u) => \A b \in backupers : calls[u][b] = 1
    /\ ePc = "returned" => CallsFrom(1) = Cardinality(backupers) * Len(units)

\* runBackups returned after 2 units on 2 backends: 4 invocations.
C2_Witness ==
    /\ ePc = "returned" /\ backupers = Providers /\ Len(units) = 2
    /\ CallsFrom(1) = 4

\* C3: a failure stays with its (unit, backend) pair: a status recorded for a
\* backend is the outcome of that backend's own Upload; whatever the other
\* backends returned, every backend's Upload of a unit the engine is past has
\* run to completion; and a run without an interrupt ends with the context
\* not cancelled and every unit of every source processed.
C3_FailureIsolated ==
    /\ \A u \in Units, b \in backupers :
           final[u][b] \in Terminal => final[u][b] = result[u][b]
    /\ \A u \in Units : Past(u) => \A b \in backupers : result[u][b] \in Terminal
    /\ (ePc = "returned" /\ ~signal) => (~cancelled /\ Len(units) = EntriesFrom(1))

\* Amazon failed on the first unit, Google succeeded on it and was recorded so,
\* and the second unit was processed by both.
C3_Witness ==
    /\ ePc = "returned" /\ ~signal /\ Len(units) = 2
    /\ result[1] = [b \in Providers |-> IF b = "Amazon" THEN MsgERR ELSE MsgOK]
    /\ final[1]["Amazon"] = MsgERR /\ final[1]["Google"] = MsgOK
    /\ \A b \in Providers : result[2][b] = MsgOK

\* C8: no unit is emitted by walkSources and started by runBackups with the
\* context already cancelled.
C8_NoUnitAfterCancel == \A u \in Units : ~afterCancel[u]

\* C10: when main returns after a cancellation that no Upload call came after,
\* every Upload that was entered has a terminal status recorded for its unit.
C10_ReportedAtExit ==
    (exit = "returned" /\ cancelled /\ ~lateCall) =>
        \A u \in Units, b \in backupers :
            calls[u][b] > 0 => final[u][b] \in Terminal

\* The launch loop of multiPartUpload has ended.
LaunchDone == mpPc \in {"collect", "check", "complete"}
              \/ (mpPc = "returned" /\ Len(ranges) > 0)

\* C4: at most SemCap part network calls are in progress; every part whose call
\* is in progress, or has returned and not yet received from sem, holds one slot.
C4_PartLimit ==
    /\ parts.call <= SemCap
    /\ sem <= SemCap
    /\ parts.call + parts.retOk + parts.retErr = sem

\* SemCap calls in progress while the launch loop has a further part to start.
C4_Witness ==
    /\ parts.call = SemCap
    /\ mpPc = "launch" /\ mpStart < size

\* C5: the ranges submitted are ascending and contiguous from byte 0, none ends
\* past byte size-1, and once the loop has ended there are ceil(size/chunkSize)
\* of them, each of chunkSize bytes but the last, which ends at byte size-1.
C5_RangesPartition ==
    /\ \A k \in 1..Len(ranges) :
           /\ ranges[k].start = (k - 1) * chunkSize
           /\ ranges[k].n = ranges[k].end - ranges[k].start + 1
           /\ ranges[k].end <= size - 1
           /\ k < Len(ranges) => /\ ranges[k].n = chunkSize
                                 /\ ranges[k + 1].start = ranges[k].end + 1
    /\ LaunchDone =>
           /\ Len(ranges) = (size + chunkSize - 1) \div chunkSize
           /\ ranges[Len(ranges)].end = size - 1
           /\ ranges[Len(ranges)].n = size - chunkSize * (Len(ranges) - 1)

\* What C6 says of an object, for the sizes that satisfy `small`: no session,
\* no part, no commit, and one direct upload unless file.Stat() failed.
NoSession ==
    /\ inits = 0 /\ ranges = <<>> /\ parts = NoParts /\ completes = 0
    /\ singles <= 1
    /\ (mpPc = "returned" /\ mpResult # "staterr") => singles = 1

\* C6 as stated: no multipart session for any size up to the part size.
C6_NoSessionUpToP == size <= chunkSize => NoSession

\* C6 amended: no multipart session for any size below the part size.
C6_NoSessionBelowP == size < chunkSize => NoSession

\* An object of chunkSize-1 bytes was uploaded by one direct upload.
C6_Witness ==
    /\ size = chunkSize - 1
    /\ mpPc = "returned" /\ singles = 1 /\ inits = 0

\* C7: CompleteMultipartUpload is called at most once, only with the launch
\* loop ended, every part goroutine ended and no part call failed; when a part
\* call failed multiPartUpload returns an error and makes no such call.
C7_CommitOnlyIfAllOk ==
    /\ completes <= 1
    /\ (mpPc = "complete" \/ completes > 0) =>
           /\ mpStart >= size /\ Len(ranges) >= 1
           /\ parts = NoParts /\ mpWg = 0 /\ closer = "closed"
           /\ ~anyPartErr
    /\ (mpPc = "returned" /\ anyPartErr) => (mpResult = "failed" /\ completes = 0)

\* A session of more parts than sem has slots was committed.
C7_Witness ==
    /\ completes = 1 /\ mpResult = "ok"
    /\ Len(ranges) > SemCap

\* C9: no part is started with the context already cancelled.
C9_NoLaunchAfterCancel == ~lateLaunch

\* runBackups has parsed dest.
Parsed == nmPc \notin {"idle", "parse"}

\* The normalization of spec 4.2, in its order: container left of the first
\* ":", the rest cut at "/", empty pieces dropped, joined by "/", a trailing "/"
\* put back, and then a leading "/" stripped from that result.
Normalized(d0) ==
    LET colon == Positions(d0, ":")
        container == IF colon = {} THEN d0 ELSE SubSeq(d0, 1, First(colon) - 1)
        rest == IF colon = {} THEN <<>> ELSE SubSeq(d0, First(colon) + 1, Len(d0))
        joined == Join(SelectSeq(Split(rest, "/"), NotEmpty), "/")
        slash == rest # <<>> /\ HasSuffix(rest, <<"/">>) /\ rest # <<"/">>
        withEnd == IF slash THEN joined \o <<"/">> ELSE joined
    IN  <<container, TrimPrefix(withEnd, <<"/">>)>>

\* C11: for every destination string, parseDest returns the container and the
\* path of the specified normalization, the path never begins with "/", and the
\* five cases of TestDestParsing give the pairs the test expects.
C11_ParseDestNormalizes ==
    Parsed =>
        /\ <<bucket, path>> = Normalized(dest)
        /\ ~HasPrefix(path, <<"/">>)
        /\ \A i \in 1..Len(Tests) :
               dest = Tests[i].input =>
                   bucket = Tests[i].expBucket /\ path = Tests[i].expPath

\* C12: parseDest applied to bucket:path, the pair it returned for any
\* destination string, returns the same pair.
C12_ParseDestIdempotent ==
    nmPc \notin {"idle", "parse", "reparse"} =>
        <<rebucket, repath>> = <<bucket, path>>


\* C13: when log.Fatalf ends the run because a source is a directory and -r was
\* not given, no Backuper.Upload call has begun.
C13_FatalBeforeAnyUpload ==
    exit = "fatal" => \A u \in Units, b \in backupers : calls[u][b] = 0


\* multiPartUpload returned because the context was cancelled.
ReturnedCanceled == mpPc = "returned" /\ errText = TextCanceled

\* C14: the status upload() reports for an Upload that returned because of the
\* cancellation is of another kind than the status it reports for an Upload
\* that failed with a remote error.
C14_CanceledDistinct ==
    ReturnedCanceled =>
        StatusMsg(mpResult, errText)[1] # StatusMsg("failed", TextChunk)[1]


\* print() of unit u is running: it holds the mutex and has read final.
Rendering(u) == stPc[u] \in {"print", "lastprint"}

\* C15: status() makes its last render, and returns, only after the context
\* was cancelled or after the status channel of every backend of the unit was
\* closed; and in a run that is not cancelled the last render shows OK or ERR
\* for every backend.
C15_LastRender ==
    \A u \in Units :
        /\ stPc[u] \in {"lastprint", "done"} =>
               \/ cancelled
               \/ /\ drCancelled[u] /\ open[u] = {}
                  /\ \A b \in backupers : upPc[u][b] = "done"
        /\ (stPc[u] = "lastprint" /\ ~cancelled) =>
               \A b \in backupers : seen[u][b] \in Terminal

\* The last render of a unit of two backends, one failed and one succeeded, in
\* a run that was not cancelled.
C15_Witness ==
    /\ backupers = Providers /\ ~cancelled
    /\ \E u \in Units : /\ stPc[u] = "lastprint"
                        /\ seen[u]["Amazon"] = MsgERR /\ seen[u]["Google"] = MsgOK

\* C18: final is written only by a goroutine that holds the mutex, print() reads
\* it only while it holds the mutex, the two never hold it together, and final
\* does not change between what print() read and the end of that print().
C18_RenderUnderMutex ==
    \A u \in Units :
        /\ drPc[u] = "locked" => mu[u] = "drain"
        /\ Rendering(u) => (mu[u] = "print" /\ final[u] = seen[u])
        /\ ~(drPc[u] = "locked" /\ Rendering(u))

\* A render is running while the draining goroutine waits with the outcome of
\* one backend, the other backend still uploading.
C18_Witness ==
    /\ backupers = Providers
    /\ \E u \in Units : /\ stPc[u] = "print" /\ drPc[u] = "got"
                        /\ drMsg[u][2] \in Terminal
                        /\ \E b \in backupers : upPc[u][b] = "inUpload"


\* walkSources has sent the srcFile of the source and runBackups has it.
UnitEmitted == nmPc = "spawn"

\* The relativeName of the unit as runBackups uses it: f.base without a leading
\* separator.
RelativeName == TrimPrefix(file.base, <<"/">>)

\* C16: every backend is handed path followed by the relativeName of the unit
\* when path is empty or ends with "/", and path itself otherwise; all backends
\* of the unit are handed the same dest.
C16_DestFromPrefix ==
    \A b \in backupers :
        upDest[b] # NoDest[b] =>
            /\ upDest[b] = IF path = <<>> \/ HasSuffix(path, <<"/">>)
                             THEN path \o RelativeName
                             ELSE path
            /\ \A c \in backupers : upDest[c] # NoDest[c] => upDest[c] = upDest[b]

\* Both backends were handed the dest of an entry of a directory, below a
\* prefix that ends with "/".
C16_Witness ==
    /\ srcArg.isDir /\ Len(path) > 1 /\ HasSuffix(path, <<"/">>)
    /\ \A b \in Providers : upDest[b] = path \o RelativeName
    /\ Len(RelativeName) > 0

\* The names in a source path, in order.
Segments(s) == SelectSeq(Split(s, "/"), NotEmpty)

\* The relativeName spec 4.1 gives a unit: the base name of a plain file; for an
\* entry of a directory its path relative to the parent of the directory, which
\* begins with the directory's own name.
ExpectedName(x) ==
    LET leaf == Segments(x.name)[Len(Segments(x.name))]
    IN  IF x.isDir THEN leaf \o <<"/">> \o x.entry ELSE leaf

\* C17: for every spelling of a source that names a file or a directory, the
\* relativeName of the unit is the base name of the file, or the path of the
\* entry relative to the parent of the directory, and has no leading separator.
C17_RelativeName ==
    (UnitEmitted /\ Segments(srcArg.name) # <<>>) =>
        /\ RelativeName = ExpectedName(srcArg)
        /\ ~HasPrefix(RelativeName, <<"/">>)


\* multiPartUpload has returned and, when it had opened a session, its launch
\* loop has ended, every part goroutine has ended and errorc is closed.
AllEnded ==
    /\ mpPc = "returned"
    /\ Len(ranges) > 0 =>
           /\ mpStart >= size
           /\ parts = NoParts /\ mpWg = 0 /\ sem = 0
           /\ closer = "closed"

\* C19: when every network call returns, multiPartUpload returns in the end,
\* with its launch loop ended, every part goroutine ended and errorc closed,
\* whatever the number of parts and whichever part calls fail.
C19_MultipartReturns == <>[]AllEnded

\* A session of more parts than sem has slots, some of them failed, has ended
\* without any cancellation.
C19_Witness ==
    /\ AllEnded /\ ~cancelled
    /\ Len(ranges) > SemCap /\ anyPartErr /\ mpResult = "failed"


\* Some source is a directory and -r was not given.
FatalInput == ~recursive /\ \E i \in 1..Len(sources) : sources[i].isDir

\* The run is over: log.Fatalf ended it on a directory given without -r, or
\* walkSources closed files and runBackups returned after the wg.Wait() of every
\* unit returned, no upload() being left in a send on its status channel.
RunEnded ==
    \/ exit = "fatal" /\ FatalInput
    \/ /\ exit = "returned" /\ ePc = "returned" /\ wPc = "closed" /\ wg = 0
       /\ \A u \in Units, b \in backupers : upPc[u][b] \in {"close", "done"}

\* C20: when every Backuper.Upload call returns, the run ends, with or without
\* an interrupt at any moment: no goroutine the engine waits for stays blocked.
C20_RunTerminates == <>[]RunEnded

\* runBackups returned after an interrupt that came while the two backends were
\* uploading a unit: both calls returned, one of them after the last render.
C20_Witness ==
    /\ RunEnded /\ exit = "returned" /\ cancelled /\ ~lateCall
    /\ backupers = Providers /\ Len(units) = 1
    /\ \A b \in backupers : result[1][b] \in Terminal
    /\ \E b \in backupers : final[1][b] = MsgPending


\* The units the engine received with the context already cancelled.
LateUnits == {u \in Units : afterCancel[u]}

\* C21: at most one unit is handed to the engine after the cancellation; it is
\* the last unit of the run, walkSources sends no other after it, and when
\* runBackups has returned the files channel is closed.
C21_AtMostOneLateUnit ==
    /\ Cardinality(LateUnits) <= 1
    /\ \A u \in LateUnits : u = Len(units) /\ wPc # "send"
    /\ ePc = "returned" => wPc = "closed"

\* The first of two entries was handed over after the cancellation, the second
\* was never sent, and walkSources has closed files.
C21_Witness ==
    /\ EntriesFrom(1) = 2 /\ Len(units) = 1 /\ afterCancel[1]
    /\ wPc = "closed" /\ ePc = "returned"


\* One change of final[u][b]: "-" at the entry of status(), then the "." that
\* upload (u, b) sent when it started, then the result of its own Upload call.
Forward(u, b) ==
    \/ final[u][b] = "none" /\ final'[u][b] = "-"
    \/ final[u][b] = "-" /\ final'[u][b] = MsgPending /\ upPc[u][b] # "start"
    \/ /\ final[u][b] = MsgPending /\ final'[u][b] \in Terminal
       /\ final'[u][b] = result[u][b] /\ Returned(u, b)

\* The terminal message of upload (u, b) was received before close(status).
ClosedAfterTerminal(u, b) ==
    upPc[u][b] = "done" =>
        \/ final[u][b] = result[u][b]
        \/ drPc[u] \in {"got", "locked"} /\ drMsg[u] = <<b, result[u][b]>>

\* C22: the status recorded for a (unit, backend) pair only moves forward,
\* "-" then "." then the one terminal value of that backend's own Upload call;
\* a terminal value is never replaced, and the channel is closed only after
\* the terminal message was handed over.
C22_StatusForward ==
    [][\A u \in Units : \A b \in Providers :
          /\ final'[u][b] # final[u][b] => Forward(u, b)
          /\ ClosedAfterTerminal(u, b)]_vars

\* Both backends of a unit ended with different terminal values, both channels
\* are closed, and each value is recorded under its own backend.
C22_Witness ==
    \E u \in Units :
        /\ upPc[u]["Amazon"] = "done" /\ upPc[u]["Google"] = "done"
        /\ result[u]["Amazon"] = MsgOK /\ result[u]["Google"] = MsgERR
        /\ final[u] = result[u]


\* The part of a destination argument before its first ":", the whole argument
\* when it has none.
ContainerOf(a) ==
    IF Positions(a, ":") = {} THEN a ELSE SubSeq(a, 1, First(Positions(a, ":")) - 1)

\* C23: the bucket name every backend is constructed with is the part of the
\* user's destination argument before its first ":", also when main appended
\* "/" to the destination.
C23_ContainerFromArgument ==
    \A b \in Providers :
        bucketName[b] # NotBuilt[b] => bucketName[b] = ContainerOf(destArg)


\* The required keys, and those the section holds with a value that is not
\* only white space.
Required == {keys[i] : i \in 1..Len(keys)}
Blank(s) == \A i \in 1..Len(s) : s[i] = " "
Usable == {k \in Required : cnf[k] # Absent /\ ~Blank(cnf[k])}

\* C24: GetKeyValues never crashes; when it has returned, err is non-nil
\* exactly when a required key is missing or blank, and values holds exactly
\* the required keys that have a non-blank value, trimmed.
C24_GetKeyValuesTotal ==
    /\ gkPc # "panic"
    /\ gkPc = "returned" =>
           /\ err # ErrNil <=> Usable # Required
           /\ DOMAIN values = Usable
           /\ \A k \in Usable : values[k] = TrimSpace(cnf[k])


====
